---- MODULE Spec2Model ----
(***************************************************************************)
(* Model of src/app.py: the DOCX-text extraction pipeline                  *)
(* (extract_data_from_docx_content), the derivation of a company name from *)
(* a file name, the two batch loaders, the sample data path of main and    *)
(* the validation check of display_company_card.                           *)
(*                                                                         *)
(* Text is modelled as a sequence of tokens.  A token is a substring the   *)
(* code's tests treat as a unit: a space, a backslash, an ordinary         *)
(* character, the prefix "https://", one of the two section header texts,  *)
(* the "**Summary:**" label, and the three labelled summary values.  A     *)
(* line is a sequence of tokens (it holds no newline), a document is a     *)
(* sequence of lines: content.split('\n').                                 *)
(***************************************************************************)
EXTENDS Integers, Sequences, FiniteSets, TLC

VARIABLES
    content,                  \* the document text, as its lines
    pc,                       \* position in extract_data_from_docx_content / display
    i,                        \* index of the next line of the running for loop
    summary,                  \* local summary (line 28)
    extraction_date,          \* local extraction_date (line 32)
    links_count_match,        \* whether the regex of line 35 matched
    total_links_from_summary, \* line 36
    text_length_match,        \* whether the regex of line 39 matched
    text_length_from_summary, \* line 40
    link_section_started,     \* line 44
    text_section_started,     \* lines 45 and 67
    links,                    \* line 43
    text_content_lines,       \* line 66
    result,                   \* the returned record, or None
    warnings,                 \* the st.warning calls of display_company_card
    data_source,              \* main: the selected data source
    sources,                  \* the batch: one entry per file / URL
    idx,                      \* index of the next source / sample / card
    company_data,             \* the list a loader builds and returns
    ui,                       \* st.error / st.warning / st.success calls of a loader
    bpc,                      \* position in main
    cards,                    \* the warnings of each displayed card
    filename,                 \* extract_company_name_from_filename: its argument
    name,                     \* local name (lines 13 and 16)
    company_name,             \* local company_name (line 19)
    npc                       \* position in extract_company_name_from_filename

vars == << content, pc, i, summary, extraction_date, links_count_match,
           total_links_from_summary, text_length_match, text_length_from_summary,
           link_section_started, text_section_started, links, text_content_lines,
           result, warnings, data_source, sources, idx, company_data, ui, bpc,
           cards, filename, name, company_name, npc >>

parseVars == << content, pc, i, summary, extraction_date, links_count_match,
                total_links_from_summary, text_length_match,
                text_length_from_summary, link_section_started,
                text_section_started, links, text_content_lines, result, warnings >>

batchVars == << data_source, sources, idx, company_data, ui, bpc, cards >>

nameVars == << filename, name, company_name, npc >>

(***************************************************************************)
(* Bounds                                                                  *)
(***************************************************************************)
MaxLines == 3

MaxSources == 4

(***************************************************************************)
(* Tokens                                                                  *)
(***************************************************************************)
\* k: the kind; n: the number a labelled value carries; d: its digit count
Tok(k) == [k |-> k, n |-> 0, d |-> 0]

Num(k, n) == [k |-> k, n |-> n, d |-> 1]

\* a labelled value whose digit string is longer than CPython's limit for int()
Long(k) == [k |-> k, n |-> 0, d |-> 4301]

SP == Tok("SP")

BS == Tok("BS")

X == Tok("X")

HTTPS == Tok("HTTPS")

LM == Tok("LM")

TM == Tok("TM")

SUM == Tok("SUM")

DATE == Tok("DATE")

NL == Tok("NL")

\* the texts 'EXTRACTED_LINKS' and 'EXTRACTED_TEXT_CONTENT'
EXTRACTED_LINKS == Tok("EL")

EXTRACTED_TEXT_CONTENT == Tok("ET")

None == [none |-> TRUE]

\* len() of the text a token stands for
TokLen(t) ==
    CASE t.k = "SP" -> 1
      [] t.k = "BS" -> 1
      [] t.k = "X" -> 1
      [] t.k = "NL" -> 1
      [] t.k = "HTTPS" -> 8
      [] t.k = "LM" -> 17
      [] t.k = "TM" -> 24
      [] t.k = "SUM" -> 12
      [] t.k = "DATE" -> 25
      [] t.k = "TL" -> 13 + t.d
      [] t.k = "TXL" -> 13 + t.d
      [] t.k = "NOSUMMARY" -> 20
      [] t.k = "CHARACTERS" -> 13
      [] t.k = "EL" -> 15
      [] t.k = "ET" -> 22
      [] OTHER -> 1

RECURSIVE StrLen(_)
StrLen(s) ==
    IF s = << >> THEN 0
    ELSE IF Len(s) = 1 THEN TokLen(s[1])
    ELSE StrLen(SubSeq(s, 1, Len(s) \div 2))
         + StrLen(SubSeq(s, Len(s) \div 2 + 1, Len(s)))

(***************************************************************************)
(* str methods the code uses                                               *)
(***************************************************************************)
IsSpace(t) == t.k = "SP"

RECURSIVE LStrip(_)
LStrip(s) == IF s # << >> /\ IsSpace(Head(s)) THEN LStrip(Tail(s)) ELSE s

RECURSIVE RStrip(_)
RStrip(s) ==
    IF s # << >> /\ IsSpace(s[Len(s)]) THEN RStrip(SubSeq(s, 1, Len(s) - 1)) ELSE s

\* str.strip()
Strip(s) == RStrip(LStrip(s))

\* sub in s, for a one-token text
Contains(s, t) == \E p \in 1..Len(s) : s[p] = t

\* s.startswith(t), for a one-token text
StartsWith(s, t) == s # << >> /\ Head(s) = t

\* s.replace('\\', '')
RECURSIVE RemoveBackslashes(_)
RemoveBackslashes(s) ==
    IF s = << >> THEN << >>
    ELSE IF Head(s) = BS THEN RemoveBackslashes(Tail(s))
    ELSE << Head(s) >> \o RemoveBackslashes(Tail(s))

\* sep.join(parts)
RECURSIVE Join(_, _)
Join(sep, parts) ==
    IF parts = << >> THEN << >>
    ELSE IF Len(parts) = 1 THEN parts[1]
    ELSE parts[1] \o sep \o Join(sep, Tail(parts))

\* the index of the first token of kind k in s, 0 when there is none
FirstOf(s, k) ==
    IF \E p \in 1..Len(s) : s[p].k = k
    THEN CHOOSE p \in 1..Len(s) : s[p].k = k /\ \A q \in 1..(p - 1) : s[q].k # k
    ELSE 0

(***************************************************************************)
(* extract_data_from_docx_content: the summary (lines 26-40)               *)
(***************************************************************************)
NoSummary == << Tok("NOSUMMARY") >>

\* the index of the first line holding "**Summary:**", 0 when there is none
FirstSummaryLine(lines) ==
    IF \E l \in 1..Len(lines) : Contains(lines[l], SUM)
    THEN CHOOSE l \in 1..Len(lines) :
             /\ Contains(lines[l], SUM)
             /\ \A m \in 1..(l - 1) : ~Contains(lines[m], SUM)
    ELSE 0

\* what follows the first "**Summary:**": the rest of its line, then the later lines
AfterSummary(lines) ==
    LET l == FirstSummaryLine(lines)
        p == FirstOf(lines[l], "SUM")
    IN  << SubSeq(lines[l], p + 1, Len(lines[l])) >> \o SubSeq(lines, l + 1, Len(lines))

\* re.search(r'\*\*Summary:\*\*\s*(.+?)(?:\n|\r|$)', content): \s* runs over spaces
\* and newlines, the group takes the rest of the first line that holds something
\* else; when only white space follows, the group backs off to a run of spaces;
\* when nothing but newlines follows there is no match.
SummaryMatches(lines) ==
    /\ FirstSummaryLine(lines) # 0
    /\ \E c \in 1..Len(AfterSummary(lines)) : AfterSummary(lines)[c] # << >>

SummaryGroup(lines) ==
    LET rest == AfterSummary(lines)
    IN  IF \E c \in 1..Len(rest) : LStrip(rest[c]) # << >>
        THEN LStrip(rest[CHOOSE c \in 1..Len(rest) :
                        /\ LStrip(rest[c]) # << >>
                        /\ \A b \in 1..(c - 1) : LStrip(rest[b]) = << >>])
        ELSE << SP >>

\* SummaryOf, were the labelled values looked for in the whole text when the
\* "**Summary:**" label is missing
SummaryOfWholeText(lines) ==
    IF SummaryMatches(lines) THEN Strip(SummaryGroup(lines)) ELSE Join(<< SP >>, lines)

\* line 28
SummaryOf(lines) ==
    IF SummaryMatches(lines) THEN Strip(SummaryGroup(lines)) ELSE NoSummary

\* line 31: re.search(r'Date:\s*(\d{4}-\d{2}-\d{2}\s+\d{2}:\d{2}:\d{2})', summary)
DateMatch(s) == FirstOf(s, "DATE") # 0

\* line 32
ExtractionDateOf(s) == IF DateMatch(s) THEN "2025-08-19 17:27:57" ELSE "Unknown date"

\* line 35: re.search(r'Total links:\s*(\d+)', summary)
LinksCountMatch(s) == FirstOf(s, "TL") # 0

\* line 39: re.search(r'Text length:\s*(\d+(?:,\d+)*)', summary)
TextLengthMatch(s) == FirstOf(s, "TXL") # 0

\* int(digits) raises ValueError when the digit string exceeds the interpreter's
\* limit for integer string conversion (4300 digits)
IntRaises(t) == t.d > 4300

\* line 36
TotalLinksFromSummary(s) == IF LinksCountMatch(s) THEN s[FirstOf(s, "TL")].n ELSE 0

\* line 40
TextLengthFromSummary(s) == IF TextLengthMatch(s) THEN s[FirstOf(s, "TXL")].n ELSE 0

\* lines 36 and 40 raise, which the except of line 93 catches
SummaryRaises(s) ==
    \/ LinksCountMatch(s) /\ IntRaises(s[FirstOf(s, "TL")])
    \/ TextLengthMatch(s) /\ IntRaises(s[FirstOf(s, "TXL")])

(***************************************************************************)
(* extract_data_from_docx_content: the two scans (lines 42-80)             *)
(***************************************************************************)
\* IsLinksHeader, were a line equal to 'EXTRACTED_LINKS' a header as well
IsLinksHeaderOrToken(line) == Contains(line, LM) \/ line = << EXTRACTED_LINKS >>

\* line 52
IsLinksHeader(line) == Contains(line, LM)

\* lines 56 and 70
IsTextHeader(line) == Contains(line, TM)

\* line 62
IsLink(started, line) == started /\ StartsWith(line, HTTPS)

\* line 76
CleanLine(line) == Strip(RemoveBackslashes(line))

\* TextContentOf, were the paragraphs joined by a single newline
TextContentOfOneNewline(paragraphs) == Join(<< NL >>, paragraphs)

\* line 80
TextContentOf(paragraphs) == Join(<< NL, NL >>, paragraphs)

\* LinkStep, were a URL that is in links already not appended again
LinkStepWithoutDuplicates(st, raw) ==
    LET line == Strip(raw)
    IN  IF IsLinksHeader(line) THEN [st EXCEPT !.ls = TRUE, !.ts = FALSE]
        ELSE IF IsTextHeader(line) THEN [st EXCEPT !.ls = FALSE, !.ts = TRUE]
        ELSE IF IsLink(st.ls, line) /\ \A p \in 1..Len(st.links) : st.links[p] # line
             THEN [st EXCEPT !.links = Append(@, line)]
        ELSE st

\* one iteration of the first loop (lines 48-63) on state st = [ls, ts, links]
LinkStep(st, raw) ==
    LET line == Strip(raw)
    IN  IF IsLinksHeader(line) THEN [st EXCEPT !.ls = TRUE, !.ts = FALSE]
        ELSE IF IsTextHeader(line) THEN [st EXCEPT !.ls = FALSE, !.ts = TRUE]
        ELSE IF IsLink(st.ls, line) THEN [st EXCEPT !.links = Append(@, line)]
        ELSE st

\* one iteration of the second loop (lines 69-78) on state st = [ts, paras]
TextStep(st, line) ==
    IF IsTextHeader(line) THEN [st EXCEPT !.ts = TRUE]
    ELSE IF st.ts /\ Strip(line) # << >> /\ CleanLine(line) # << >>
         THEN [st EXCEPT !.paras = Append(@, CleanLine(line))]
    ELSE st

\* lines 82-91
Record(s, ls, paras) ==
    [ summary |-> s,
      extraction_date |-> ExtractionDateOf(s),
      links |-> ls,
      text_content |-> TextContentOf(paras),
      total_links |-> Len(ls),
      total_links_from_summary |-> TotalLinksFromSummary(s),
      text_length |-> StrLen(TextContentOf(paras)),
      text_length_from_summary |-> TextLengthFromSummary(s) ]

RECURSIVE LinkScan(_, _)
LinkScan(st, lines) ==
    IF lines = << >> THEN st ELSE LinkScan(LinkStep(st, Head(lines)), Tail(lines))

RECURSIVE TextScan(_, _)
TextScan(st, lines) ==
    IF lines = << >> THEN st ELSE TextScan(TextStep(st, Head(lines)), Tail(lines))

\* extract_data_from_docx_content as a function of the lines (lines 23-95)
ExtractData(lines) ==
    IF SummaryRaises(SummaryOf(lines)) THEN None
    ELSE Record(SummaryOf(lines),
                LinkScan([ls |-> FALSE, ts |-> FALSE, links |-> << >>], lines).links,
                TextScan([ts |-> FALSE, paras |-> << >>], lines).paras)

(***************************************************************************)
(* display_company_card: the warnings it raises (lines 185-293)            *)
(***************************************************************************)
\* lines 202-203
LinkCountMismatch(rec) == rec.total_links # rec.total_links_from_summary

\* CardWarnings, were the text lengths compared as the link counts are
CardWarningsWithTextLength(rec) ==
    (IF LinkCountMismatch(rec) THEN {"Link count mismatch"} ELSE {})
    \cup (IF rec.text_length # rec.text_length_from_summary
          THEN {"Text length mismatch"} ELSE {})
    \cup (IF rec.links = << >> THEN {"No links found"} ELSE {})
    \cup (IF rec.text_content = << >> THEN {"No text content found"} ELSE {})

\* lines 202-203, 228-229, 255-256
CardWarnings(rec) ==
    (IF LinkCountMismatch(rec) THEN {"Link count mismatch"} ELSE {})
    \cup (IF rec.links = << >> THEN {"No links found"} ELSE {})
    \cup (IF rec.text_content = << >> THEN {"No text content found"} ELSE {})

(***************************************************************************)
(* The documents the parse is run on                                       *)
(***************************************************************************)
\* representative lines: blank and white lines, the two section headers alone,
\* padded and inside other text, link lines, text lines with backslashes,
\* summary lines with and without each labelled value, and the two lines
\* 'EXTRACTED_LINKS' and 'EXTRACTED_TEXT_CONTENT'
LineSet ==
    { << >>,
      << SP >>,
      << LM >>,
      << TM >>,
      << X, LM >>,
      << HTTPS, X >>,
      << HTTPS, TM >>,
      << SP, HTTPS, SP >>,
      << X, SP, HTTPS >>,
      << X >>,
      << BS >>,
      << SP, BS, X, SP, X, BS >>,
      << SUM >>,
      << SUM, SP, Num("TL", 1), Num("TXL", 1), DATE >>,
      << SUM, SP, Num("TL", 2), SP >>,
      << SUM, Num("TXL", 9) >>,
      << SUM, SP, Long("TL") >>,
      << Num("TL", 3), DATE >>,
      << EXTRACTED_LINKS >>,
      << EXTRACTED_TEXT_CONTENT >> }

RECURSIVE SeqsUpTo(_, _)
SeqsUpTo(S, n) ==
    IF n = 0 THEN { << >> }
    ELSE LET shorter == SeqsUpTo(S, n - 1)
         IN  shorter \cup { Append(q, x) : q \in { r \in shorter : Len(r) = n - 1 }, x \in S }

\* content.split('\n') of a text is never the empty list: '' splits into ['']
Documents == SeqsUpTo(LineSet, MaxLines) \ { << >> }

(***************************************************************************)
(* Spec: one run of extract_data_from_docx_content and the card of its     *)
(* record                                                                  *)
(***************************************************************************)
BatchIdle ==
    /\ data_source = "none"
    /\ sources = << >>
    /\ idx = 0
    /\ company_data = << >>
    /\ ui = << >>
    /\ bpc = "idle"
    /\ cards = {}

NameIdle ==
    /\ filename = << >>
    /\ name = << >>
    /\ company_name = << >>
    /\ npc = "idle"

ParseIdle ==
    /\ pc = "idle"
    /\ i = 0
    /\ summary = << >>
    /\ extraction_date = ""
    /\ links_count_match = FALSE
    /\ total_links_from_summary = 0
    /\ text_length_match = FALSE
    /\ text_length_from_summary = 0
    /\ link_section_started = FALSE
    /\ text_section_started = FALSE
    /\ links = << >>
    /\ text_content_lines = << >>
    /\ result = None
    /\ warnings = {}

Init ==
    /\ content \in Documents
    /\ pc = "summary"
    /\ i = 0
    /\ summary = << >>
    /\ extraction_date = ""
    /\ links_count_match = FALSE
    /\ total_links_from_summary = 0
    /\ text_length_match = FALSE
    /\ text_length_from_summary = 0
    /\ link_section_started = FALSE
    /\ text_section_started = FALSE
    /\ links = << >>
    /\ text_content_lines = << >>
    /\ result = None
    /\ warnings = {}
    /\ BatchIdle
    /\ NameIdle

\* lines 26-47: the summary values, then the first loop's locals
ExtractSummary ==
    /\ pc = "summary"
    /\ ~SummaryRaises(SummaryOf(content))
    /\ summary' = SummaryOf(content)
    /\ extraction_date' = ExtractionDateOf(SummaryOf(content))
    /\ links_count_match' = LinksCountMatch(SummaryOf(content))
    /\ total_links_from_summary' = TotalLinksFromSummary(SummaryOf(content))
    /\ text_length_match' = TextLengthMatch(SummaryOf(content))
    /\ text_length_from_summary' = TextLengthFromSummary(SummaryOf(content))
    /\ links' = << >>
    /\ link_section_started' = FALSE
    /\ text_section_started' = FALSE
    /\ i' = 1
    /\ pc' = "links"
    /\ UNCHANGED << content, text_content_lines, result, warnings >>
    /\ UNCHANGED batchVars
    /\ UNCHANGED nameVars

\* lines 36, 40, 93-95: int() raises, the except reports it and returns None
ExtractFails ==
    /\ pc = "summary"
    /\ SummaryRaises(SummaryOf(content))
    /\ summary' = SummaryOf(content)
    /\ extraction_date' = ExtractionDateOf(SummaryOf(content))
    /\ result' = None
    /\ pc' = "failed"
    /\ UNCHANGED << content, i, links_count_match, total_links_from_summary,
                    text_length_match, text_length_from_summary,
                    link_section_started, text_section_started, links,
                    text_content_lines, warnings >>
    /\ UNCHANGED batchVars
    /\ UNCHANGED nameVars

\* lines 48-63: one iteration of the first loop
LinksLoop ==
    /\ pc = "links"
    /\ i <= Len(content)
    /\ LET st == LinkStep([ls |-> link_section_started, ts |-> text_section_started,
                           links |-> links], content[i])
       IN  /\ link_section_started' = st.ls
           /\ text_section_started' = st.ts
           /\ links' = st.links
    /\ i' = i + 1
    /\ UNCHANGED << content, pc, summary, extraction_date, links_count_match,
                    total_links_from_summary, text_length_match,
                    text_length_from_summary, text_content_lines, result, warnings >>
    /\ UNCHANGED batchVars
    /\ UNCHANGED nameVars

\* lines 65-67: the first loop is over, the second loop's locals
StartTextLoop ==
    /\ pc = "links"
    /\ i > Len(content)
    /\ text_content_lines' = << >>
    /\ text_section_started' = FALSE
    /\ i' = 1
    /\ pc' = "text"
    /\ UNCHANGED << content, summary, extraction_date, links_count_match,
                    total_links_from_summary, text_length_match,
                    text_length_from_summary, link_section_started, links, result,
                    warnings >>
    /\ UNCHANGED batchVars
    /\ UNCHANGED nameVars

\* lines 69-78: one iteration of the second loop
TextLoop ==
    /\ pc = "text"
    /\ i <= Len(content)
    /\ LET st == TextStep([ts |-> text_section_started, paras |-> text_content_lines],
                          content[i])
       IN  /\ text_section_started' = st.ts
           /\ text_content_lines' = st.paras
    /\ i' = i + 1
    /\ UNCHANGED << content, pc, summary, extraction_date, links_count_match,
                    total_links_from_summary, text_length_match,
                    text_length_from_summary, link_section_started, links, result,
                    warnings >>
    /\ UNCHANGED batchVars
    /\ UNCHANGED nameVars

\* lines 80-91: join the paragraphs and return the record
Return ==
    /\ pc = "text"
    /\ i > Len(content)
    /\ result' = Record(summary, links, text_content_lines)
    /\ pc' = "done"
    /\ UNCHANGED << content, i, summary, extraction_date, links_count_match,
                    total_links_from_summary, text_length_match,
                    text_length_from_summary, link_section_started,
                    text_section_started, links, text_content_lines, warnings >>
    /\ UNCHANGED batchVars
    /\ UNCHANGED nameVars

\* lines 185-293: the card of the record
DisplayCard ==
    /\ pc = "done"
    /\ warnings' = CardWarnings(result)
    /\ pc' = "shown"
    /\ UNCHANGED << content, i, summary, extraction_date, links_count_match,
                    total_links_from_summary, text_length_match,
                    text_length_from_summary, link_section_started,
                    text_section_started, links, text_content_lines, result >>
    /\ UNCHANGED batchVars
    /\ UNCHANGED nameVars

Next ==
    \/ ExtractSummary
    \/ ExtractFails
    \/ LinksLoop
    \/ StartTextLoop
    \/ TextLoop
    \/ Return
    \/ DisplayCard

Spec == Init /\ [][Next]_vars

(***************************************************************************)
(* extract_company_name_from_filename (lines 10-21), on the characters of  *)
(* a file name that holds no path separator                                *)
(***************************************************************************)
LowerCase ==
    << "a", "b", "c", "d", "e", "f", "g", "h", "i", "j", "k", "l", "m",
       "n", "o", "p", "q", "r", "s", "t", "u", "v", "w", "x", "y", "z" >>

UpperCase ==
    << "A", "B", "C", "D", "E", "F", "G", "H", "I", "J", "K", "L", "M",
       "N", "O", "P", "Q", "R", "S", "T", "U", "V", "W", "X", "Y", "Z" >>

Digits == { "0", "1", "2", "3", "4", "5", "6", "7", "8", "9" }

IsLetter(c) == \E j \in 1..Len(LowerCase) : c = LowerCase[j] \/ c = UpperCase[j]

ToUpper(c) ==
    IF \E j \in 1..Len(LowerCase) : c = LowerCase[j]
    THEN UpperCase[CHOOSE j \in 1..Len(LowerCase) : c = LowerCase[j]]
    ELSE c

ToLower(c) ==
    IF \E j \in 1..Len(UpperCase) : c = UpperCase[j]
    THEN LowerCase[CHOOSE j \in 1..Len(UpperCase) : c = UpperCase[j]]
    ELSE c

\* the index of the last "." of s, 0 when there is none
LastDot(s) ==
    IF \E p \in 1..Len(s) : s[p] = "."
    THEN CHOOSE p \in 1..Len(s) : s[p] = "." /\ \A q \in (p + 1)..Len(s) : s[q] # "."
    ELSE 0

\* line 13: os.path.splitext(filename)[0]; leading dots start no extension
SplitExtRoot(s) ==
    IF LastDot(s) > 0 /\ \E q \in 1..(LastDot(s) - 1) : s[q] # "."
    THEN SubSeq(s, 1, LastDot(s) - 1)
    ELSE s

\* whether '_complete_' + 8 digits + '_' + 6 digits is s[e-24 .. e]
StampAt(s, e) ==
    /\ e >= 25
    /\ e <= Len(s)
    /\ SubSeq(s, e - 24, e - 15)
         = << "_", "c", "o", "m", "p", "l", "e", "t", "e", "_" >>
    /\ \A p \in (e - 14)..(e - 7) : s[p] \in Digits
    /\ s[e - 6] = "_"
    /\ \A p \in (e - 5)..e : s[p] \in Digits

\* where the match of r'_complete_\d{8}_\d{6}$' ends, 0 when there is none:
\* without re.MULTILINE, $ matches at the end of the string and just before
\* a line feed that is its last character
StampEnd(s) ==
    IF StampAt(s, Len(s)) THEN Len(s)
    ELSE IF s # << >> /\ s[Len(s)] = "\n" /\ StampAt(s, Len(s) - 1) THEN Len(s) - 1
    ELSE 0

HasStamp(s) == StampEnd(s) > 0

\* line 16: re.sub deletes the match and keeps what follows it
StripStamp(s) ==
    IF HasStamp(s)
    THEN SubSeq(s, 1, StampEnd(s) - 25) \o SubSeq(s, StampEnd(s) + 1, Len(s))
    ELSE s

\* line 19: replace('-', ' ').replace('_', ' ')
Spaced(s) == [p \in 1..Len(s) |-> IF s[p] \in { "-", "_" } THEN " " ELSE s[p]]

\* line 19: str.title(); cased is whether the character before is a letter
RECURSIVE Title(_, _)
Title(s, cased) ==
    IF s = << >> THEN << >>
    ELSE IF IsLetter(Head(s))
         THEN << IF cased THEN ToLower(Head(s)) ELSE ToUpper(Head(s)) >>
                  \o Title(Tail(s), TRUE)
    ELSE << Head(s) >> \o Title(Tail(s), FALSE)

extract_company_name_from_filename(f) ==
    Title(Spaced(StripStamp(SplitExtRoot(f))), FALSE)

\* "_complete_20250819_" and ".docx", as their characters
StampPrefix == << "_", "c", "o", "m", "p", "l", "e", "t", "e", "_", "2", "0", "2", "5", "0", "8", "1", "9", "_" >>

DocxExt == << ".", "d", "o", "c", "x" >>

\* main, lines 383-398: the auto-filled file names, as their characters
DefaultFilenames ==
    << << "b", "a", "j", "a", "j", "-", "a", "u", "t", "o" >> \o StampPrefix \o << "1", "7", "2", "7", "5", "7" >> \o DocxExt,
       << "b", "a", "j", "f", "i", "n", "s", "p", "v" >> \o StampPrefix \o << "1", "7", "2", "4", "2", "5" >> \o DocxExt,
       << "b", "a", "j", "f", "i", "n", "a", "n", "c", "e" >> \o StampPrefix \o << "1", "7", "3", "4", "3", "9" >> \o DocxExt,
       << "c", "o", "a", "l", "i", "n", "d", "i", "a" >> \o StampPrefix \o << "1", "7", "3", "2", "5", "9" >> \o DocxExt,
       << "d", "r", "r", "e", "d", "d", "y" >> \o StampPrefix \o << "1", "7", "3", "1", "1", "8" >> \o DocxExt,
       << "h", "d", "f", "c", "l", "i", "f", "e" >> \o StampPrefix \o << "1", "7", "2", "1", "0", "8" >> \o DocxExt,
       << "i", "t", "c" >> \o StampPrefix \o << "1", "7", "2", "9", "3", "9" >> \o DocxExt,
       << "l", "t" >> \o StampPrefix \o << "1", "7", "3", "9", "3", "5" >> \o DocxExt,
       << "m", "a", "r", "u", "t", "i" >> \o StampPrefix \o << "1", "7", "3", "8", "0", "1" >> \o DocxExt,
       << "n", "t", "p", "c" >> \o StampPrefix \o << "1", "7", "1", "6", "2", "9" >> \o DocxExt,
       << "o", "n", "g", "c" >> \o StampPrefix \o << "1", "7", "3", "6", "1", "8" >> \o DocxExt,
       << "t", "a", "t", "a", "c", "o", "n", "s", "u", "m" >> \o StampPrefix \o << "1", "7", "2", "2", "4", "9" >> \o DocxExt,
       << "t", "c", "s" >> \o StampPrefix \o << "1", "7", "2", "6", "1", "5" >> \o DocxExt,
       << "t", "e", "c", "h", "m" >> \o StampPrefix \o << "1", "7", "1", "7", "5", "9" >> \o DocxExt,
       << "t", "i", "t", "a", "n" >> \o StampPrefix \o << "1", "7", "1", "4", "5", "5" >> \o DocxExt,
       << "t", "r", "e", "n", "t" >> \o StampPrefix \o << "1", "7", "1", "9", "3", "6" >> \o DocxExt >>

\* main, lines 441-554: companies_sample; content_len is len(comp['content'])
CompaniesSample ==
    << [filename |-> DefaultFilenames[1], company_name |-> << "B", "a", "j", "a", "j", " ", "A", "u", "t", "o" >>,
         links |-> 19, text_length |-> 2306, content_len |-> 232],
       [filename |-> DefaultFilenames[2], company_name |-> << "B", "a", "j", "f", "i", "n", "s", "p", "v" >>,
         links |-> 15, text_length |-> 1850, content_len |-> 183],
       [filename |-> DefaultFilenames[3], company_name |-> << "B", "a", "j", "f", "i", "n", "a", "n", "c", "e" >>,
         links |-> 22, text_length |-> 2890, content_len |-> 165],
       [filename |-> DefaultFilenames[4], company_name |-> << "C", "o", "a", "l", "i", "n", "d", "i", "a" >>,
         links |-> 18, text_length |-> 2156, content_len |-> 152],
       [filename |-> DefaultFilenames[5], company_name |-> << "D", "r", "r", "e", "d", "d", "y" >>,
         links |-> 16, text_length |-> 1967, content_len |-> 152],
       [filename |-> DefaultFilenames[6], company_name |-> << "H", "d", "f", "c", "l", "i", "f", "e" >>,
         links |-> 14, text_length |-> 1745, content_len |-> 160],
       [filename |-> DefaultFilenames[7], company_name |-> << "I", "t", "c" >>,
         links |-> 20, text_length |-> 2534, content_len |-> 146],
       [filename |-> DefaultFilenames[8], company_name |-> << "L", "t" >>,
         links |-> 17, text_length |-> 2098, content_len |-> 149],
       [filename |-> DefaultFilenames[9], company_name |-> << "M", "a", "r", "u", "t", "i" >>,
         links |-> 21, text_length |-> 2678, content_len |-> 145],
       [filename |-> DefaultFilenames[10], company_name |-> << "N", "t", "p", "c" >>,
         links |-> 13, text_length |-> 1623, content_len |-> 136],
       [filename |-> DefaultFilenames[11], company_name |-> << "O", "n", "g", "c" >>,
         links |-> 19, text_length |-> 2289, content_len |-> 136],
       [filename |-> DefaultFilenames[12], company_name |-> << "T", "a", "t", "a", "c", "o", "n", "s", "u", "m" >>,
         links |-> 12, text_length |-> 1456, content_len |-> 134],
       [filename |-> DefaultFilenames[13], company_name |-> << "T", "c", "s" >>,
         links |-> 25, text_length |-> 3124, content_len |-> 140],
       [filename |-> DefaultFilenames[14], company_name |-> << "T", "e", "c", "h", "m" >>,
         links |-> 16, text_length |-> 1987, content_len |-> 131],
       [filename |-> DefaultFilenames[15], company_name |-> << "T", "i", "t", "a", "n" >>,
         links |-> 18, text_length |-> 2234, content_len |-> 139],
       [filename |-> DefaultFilenames[16], company_name |-> << "T", "r", "e", "n", "t" >>,
         links |-> 14, text_length |-> 1678, content_len |-> 127] >>

(***************************************************************************)
(* SpecName: one call of extract_company_name_from_filename.  A file name  *)
(* is a stem, then what stands where the time stamp is expected, then an   *)
(* extension                                                               *)
(***************************************************************************)
NameStems ==
    { << "b", "a", "j", "a", "j", "-", "a", "u", "t", "o" >>,
      << "a", "_", "b" >>,
      << "t", "C", "S" >>,
      << "3", "m", "-", "c", "o" >>,
      << "x" >>,
      << "a", ".", "b" >> }

\* nothing; the time stamp; the time stamp and a line feed; the time stamp
\* inside the name; seven digits for eight; upper case; two time stamps
NameStamps ==
    { << >>,
      << "_", "c", "o", "m", "p", "l", "e", "t", "e", "_", "2", "0", "2", "5", "0", "8", "1", "9", "_", "1", "7", "2", "7", "5", "7" >>,
      << "_", "c", "o", "m", "p", "l", "e", "t", "e", "_", "2", "0", "2", "5", "0", "8", "1", "9", "_", "1", "7", "2", "7", "5", "7", "\n" >>,
      << "_", "c", "o", "m", "p", "l", "e", "t", "e", "_", "2", "0", "2", "5", "0", "8", "1", "9", "_", "1", "7", "2", "7", "5", "7", "_", "b" >>,
      << "_", "c", "o", "m", "p", "l", "e", "t", "e", "_", "2", "0", "2", "5", "0", "8", "1", "_", "1", "7", "2", "7", "5", "7" >>,
      << "_", "C", "O", "M", "P", "L", "E", "T", "E", "_", "2", "0", "2", "5", "0", "8", "1", "9", "_", "1", "7", "2", "7", "5", "7" >>,
      << "_", "c", "o", "m", "p", "l", "e", "t", "e", "_", "2", "0", "2", "5", "0", "8", "1", "9", "_", "1", "7", "2", "7", "5", "7", "_", "c", "o", "m", "p", "l", "e", "t", "e", "_", "2", "0", "2", "5", "0", "8", "2", "0", "_", "0", "9", "0", "0", "0", "0" >> }

NameExts ==
    { << >>,
      << ".", "d", "o", "c", "x" >>,
      << ".", "D", "O", "C", "X" >>,
      << "." >> }

FileNames == { st \o sp \o ex : st \in NameStems, sp \in NameStamps, ex \in NameExts }

InitName ==
    /\ content = << >>
    /\ ParseIdle
    /\ BatchIdle
    /\ filename \in FileNames
    /\ name = << >>
    /\ company_name = << >>
    /\ npc = "splitext"

\* line 13
SplitExt ==
    /\ npc = "splitext"
    /\ name' = SplitExtRoot(filename)
    /\ npc' = "sub"
    /\ UNCHANGED << filename, company_name >>
    /\ UNCHANGED parseVars
    /\ UNCHANGED batchVars

\* line 16
RemoveTimestamp ==
    /\ npc = "sub"
    /\ name' = StripStamp(name)
    /\ npc' = "title"
    /\ UNCHANGED << filename, company_name >>
    /\ UNCHANGED parseVars
    /\ UNCHANGED batchVars

\* lines 19 and 21
TitleCase ==
    /\ npc = "title"
    /\ company_name' = Title(Spaced(name), FALSE)
    /\ npc' = "return"
    /\ UNCHANGED << filename, name >>
    /\ UNCHANGED parseVars
    /\ UNCHANGED batchVars

NextName ==
    \/ SplitExt
    \/ RemoveTimestamp
    \/ TitleCase

SpecName == InitName /\ [][NextName]_vars

(***************************************************************************)
(* The loaders (lines 97-183) and main (lines 339-583, 586-642)            *)
(***************************************************************************)
\* the paragraphs of the documents a batch holds: a well-formed one, one whose
\* declared link count differs from its links, one whose summary int() rejects
DocSet ==
    { << << SUM, SP, Num("TL", 1), Num("TXL", 1), DATE >>, << SP >>, << LM >>,
         << HTTPS, X >>, << TM >>, << X >> >>,
      << << SUM, SP, Num("TL", 2), SP >>, << LM >>, << HTTPS, X >> >>,
      << << SUM, SP, Long("TL") >> >> }

\* what requests.get / raise_for_status (lines 156-157) and Document (line 102)
\* do for a source: deliver a document, raise a RequestException (a timeout),
\* raise another exception, or fail to read the bytes as DOCX
GithubSources ==
    { [kind |-> "ok", doc |-> d] : d \in DocSet }
    \cup { [kind |-> k, doc |-> << >>] : k \in { "timeout", "other_error", "bad_docx" } }

DirectorySources ==
    { [kind |-> "ok", doc |-> d] : d \in DocSet } \cup { [kind |-> "bad_docx", doc |-> << >>] }

\* lines 108-113: the paragraphs with text, joined by '\n', as the lines of the
\* joined text
FullText(doc) ==
    LET kept == SelectSeq(doc, LAMBDA para : Strip(para) # << >>)
    IN  IF kept = << >> THEN << << >> >> ELSE kept

\* extract_data_from_docx_file (lines 97-118): the value it returns
DocxFileData(src) ==
    IF src.kind = "bad_docx" THEN None ELSE ExtractData(FullText(src.doc))

\* DocxFileErrors, were the except clauses silent
DocxFileErrorsSilent(src) == << >>

\* extract_data_from_docx_file: its st.error calls (lines 94 and 117)
DocxFileErrors(src) ==
    IF src.kind = "bad_docx"
    THEN << [level |-> "error", text |-> "Error processing file", filename |-> << >>] >>
    ELSE IF ExtractData(FullText(src.doc)) = None
    THEN << [level |-> "error", text |-> "Error processing content", filename |-> << >>] >>
    ELSE << >>

\* lines 131-136 and 167-172: the record a loader appends; key is 'file_path' or
\* 'github_url', both identified here by the file name that ends them
GithubRecord(f, data) ==
    [ company_name |-> extract_company_name_from_filename(f),
      filename |-> f,
      github_url |-> f,
      summary |-> data.summary,
      extraction_date |-> data.extraction_date,
      links |-> data.links,
      text_content |-> data.text_content,
      total_links |-> data.total_links,
      total_links_from_summary |-> data.total_links_from_summary,
      text_length |-> data.text_length,
      text_length_from_summary |-> data.text_length_from_summary ]

DirectoryRecord(f, data) ==
    [ company_name |-> extract_company_name_from_filename(f),
      filename |-> f,
      file_path |-> f,
      summary |-> data.summary,
      extraction_date |-> data.extraction_date,
      links |-> data.links,
      text_content |-> data.text_content,
      total_links |-> data.total_links,
      total_links_from_summary |-> data.total_links_from_summary,
      text_length |-> data.text_length,
      text_length_from_summary |-> data.text_length_from_summary ]

\* lines 560-570: the sample links of a company with n declared links
SampleLink(j) == << HTTPS, [k |-> "SAMPLE", n |-> j, d |-> 0] >>

RECURSIVE ExtendSampleLinks(_, _)
ExtendSampleLinks(l, n) ==
    IF Len(l) < n THEN ExtendSampleLinks(Append(l, SampleLink(Len(l) + 1)), n) ELSE l

\* SampleLinks, without the while loop of lines 569-570
SampleLinksNotExtended(n) == [j \in 1..5 |-> SampleLink(j)]

SampleLinks(n) == ExtendSampleLinks([j \in 1..5 |-> SampleLink(j)], n)

\* l[:n] for n >= 0
Slice(l, n) == SubSeq(l, 1, IF n < Len(l) THEN n ELSE Len(l))

\* lines 572-583
SampleRecord(comp) ==
    [ company_name |-> comp.company_name,
      filename |-> comp.filename,
      summary |-> << [k |-> "TL", n |-> comp.links, d |-> 2], X, SP,
                     [k |-> "TXL", n |-> comp.text_length, d |-> 5],
                     Tok("CHARACTERS"), DATE >>,
      extraction_date |-> "2025-08-19 17:27:57",
      links |-> Slice(SampleLinks(comp.links), comp.links),
      text_content |-> [p \in 1..comp.content_len |-> X],
      total_links |-> comp.links,
      total_links_from_summary |-> comp.links,
      text_length |-> StrLen([p \in 1..comp.content_len |-> X]),
      text_length_from_summary |-> comp.text_length ]

Say(level, text, f) == [level |-> level, text |-> text, filename |-> f]

FileNameAt(k) == DefaultFilenames[k]

(***************************************************************************)
(* SpecBatch: main loads a batch through a loader, or builds the sample    *)
(* records, and displays the cards                                         *)
(***************************************************************************)
InitBatch ==
    /\ content = << >>
    /\ ParseIdle
    /\ data_source \in { "GitHub Repository", "Sample Data (Demo)", "Local Directory" }
    /\ sources \in
         CASE data_source = "GitHub Repository" ->
                  SeqsUpTo(GithubSources, MaxSources) \ { << >> }
           [] data_source = "Local Directory" -> SeqsUpTo(DirectorySources, MaxSources)
           [] OTHER -> { << >> }
    /\ idx = 1
    /\ company_data = << >>
    /\ ui = << >>
    /\ bpc = "load"
    /\ cards = {}
    /\ NameIdle

\* GithubNetworkError, were the exception to leave the for loop
GithubNetworkErrorAborts ==
    /\ bpc = "load"
    /\ data_source = "GitHub Repository"
    /\ idx <= Len(sources)
    /\ sources[idx].kind = "timeout"
    /\ ui' = ui \o << Say("write", "Processing", FileNameAt(idx)),
                      Say("error", "Network error loading", FileNameAt(idx)) >>
    /\ idx' = Len(sources) + 1
    /\ UNCHANGED << data_source, sources, company_data, bpc, cards >>
    /\ UNCHANGED parseVars
    /\ UNCHANGED nameVars

\* load_docx_from_github, lines 144-157 and 177-178: the download raises a
\* RequestException
GithubNetworkError ==
    /\ bpc = "load"
    /\ data_source = "GitHub Repository"
    /\ idx <= Len(sources)
    /\ sources[idx].kind = "timeout"
    /\ ui' = ui \o << Say("write", "Processing", FileNameAt(idx)),
                      Say("error", "Network error loading", FileNameAt(idx)) >>
    /\ idx' = idx + 1
    /\ UNCHANGED << data_source, sources, company_data, bpc, cards >>
    /\ UNCHANGED parseVars
    /\ UNCHANGED nameVars

\* load_docx_from_github, lines 144-157 and 179-181: another exception
GithubOtherError ==
    /\ bpc = "load"
    /\ data_source = "GitHub Repository"
    /\ idx <= Len(sources)
    /\ sources[idx].kind = "other_error"
    /\ ui' = ui \o << Say("write", "Processing", FileNameAt(idx)),
                      Say("error", "Error processing", FileNameAt(idx)),
                      Say("write", "URL", FileNameAt(idx)) >>
    /\ idx' = idx + 1
    /\ UNCHANGED << data_source, sources, company_data, bpc, cards >>
    /\ UNCHANGED parseVars
    /\ UNCHANGED nameVars

\* load_docx_from_github, lines 144-175: the download succeeds
GithubDownloaded ==
    /\ bpc = "load"
    /\ data_source = "GitHub Repository"
    /\ idx <= Len(sources)
    /\ sources[idx].kind \in { "ok", "bad_docx" }
    /\ LET data == DocxFileData(sources[idx])
           said == << Say("write", "Processing", FileNameAt(idx)),
                      Say("write", "Downloaded", FileNameAt(idx)) >>
                   \o DocxFileErrors(sources[idx])
       IN  IF data # None
           THEN /\ company_data' = Append(company_data, GithubRecord(FileNameAt(idx), data))
                /\ ui' = ui \o said
                         \o << Say("success", "Successfully processed", FileNameAt(idx)) >>
           ELSE /\ company_data' = company_data
                /\ ui' = ui \o said
                         \o << Say("warning", "No data extracted", FileNameAt(idx)) >>
    /\ idx' = idx + 1
    /\ UNCHANGED << data_source, sources, bpc, cards >>
    /\ UNCHANGED parseVars
    /\ UNCHANGED nameVars

\* load_docx_files_from_directory, lines 125-136
DirectoryFile ==
    /\ bpc = "load"
    /\ data_source = "Local Directory"
    /\ idx <= Len(sources)
    /\ LET data == DocxFileData(sources[idx])
       IN  company_data' =
               IF data # None
               THEN Append(company_data, DirectoryRecord(FileNameAt(idx), data))
               ELSE company_data
    /\ ui' = ui \o DocxFileErrors(sources[idx])
    /\ idx' = idx + 1
    /\ UNCHANGED << data_source, sources, bpc, cards >>
    /\ UNCHANGED parseVars
    /\ UNCHANGED nameVars

\* lines 138 and 183, 420 and 433: the loader returns company_data to main
LoaderReturns ==
    /\ bpc = "load"
    /\ data_source # "Sample Data (Demo)"
    /\ idx > Len(sources)
    /\ bpc' = "display"
    /\ UNCHANGED << data_source, sources, idx, company_data, ui, cards >>
    /\ UNCHANGED parseVars
    /\ UNCHANGED nameVars

\* main, lines 558-583: one iteration over companies_sample
SampleCompany ==
    /\ bpc = "load"
    /\ data_source = "Sample Data (Demo)"
    /\ idx <= Len(CompaniesSample)
    /\ company_data' = Append(company_data, SampleRecord(CompaniesSample[idx]))
    /\ idx' = idx + 1
    /\ UNCHANGED << data_source, sources, ui, bpc, cards >>
    /\ UNCHANGED parseVars
    /\ UNCHANGED nameVars

\* main, line 583: the loop over companies_sample is over
SampleDone ==
    /\ bpc = "load"
    /\ data_source = "Sample Data (Demo)"
    /\ idx > Len(CompaniesSample)
    /\ bpc' = "display"
    /\ UNCHANGED << data_source, sources, idx, company_data, ui, cards >>
    /\ UNCHANGED parseVars
    /\ UNCHANGED nameVars

\* main, lines 586-642: a card for every record (the search box is empty; the
\* sort order chosen decides the order of the cards, not their content)
DisplayCards ==
    /\ bpc = "display"
    /\ cards' = { [filename |-> company_data[k].filename,
                   warnings |-> CardWarnings(company_data[k])] :
                  k \in 1..Len(company_data) }
    /\ bpc' = "shown"
    /\ UNCHANGED << data_source, sources, idx, company_data, ui >>
    /\ UNCHANGED parseVars
    /\ UNCHANGED nameVars

NextBatch ==
    \/ GithubNetworkError
    \/ GithubOtherError
    \/ GithubDownloaded
    \/ DirectoryFile
    \/ LoaderReturns
    \/ SampleCompany
    \/ SampleDone
    \/ DisplayCards

SpecBatch == InitBatch /\ [][NextBatch]_vars

(***************************************************************************)
(* SpecAll: every run of Spec and of SpecBatch, that is every record that  *)
(* reaches a card                                                          *)
(***************************************************************************)
InitAll == Init \/ InitBatch

NextAll == Next \/ NextBatch

SpecAll == InitAll /\ [][NextAll]_vars

(***************************************************************************)
(* Properties                                                              *)
(***************************************************************************)
Returned == pc \in { "done", "shown" }

Loaded ==
    /\ bpc \in { "display", "shown" }
    /\ data_source \in { "GitHub Repository", "Local Directory" }

\* a line that, trimmed, is exactly the section header
IsMarkerLine(line, marker) == Strip(line) = << marker >>

\* the number of lines after a Links marker line and before the next marker
\* line whose trimmed form starts with "https://"
RECURSIVE TaggedLinkCount(_, _)
TaggedLinkCount(lines, section) ==
    IF lines = << >> THEN 0
    ELSE IF IsMarkerLine(Head(lines), LM) THEN TaggedLinkCount(Tail(lines), "Links")
    ELSE IF IsMarkerLine(Head(lines), TM) THEN TaggedLinkCount(Tail(lines), "Text")
    ELSE (IF section = "Links" /\ StartsWith(Strip(Head(lines)), HTTPS) THEN 1 ELSE 0)
         + TaggedLinkCount(Tail(lines), section)

\* C1: the record's total_links is the number of lines tagged Links by marker
\* lines (lines exactly equal to a section header) whose trimmed form starts
\* with "https://"
C1_LinkCountOfTaggedLines ==
    Returned => result.total_links = TaggedLinkCount(content, "Unknown")

\* C2: in either loop, only a line exactly equal to a section header changes
\* the section flags; any other line leaves them as they are
C2_OnlyMarkerLinesChangeSection ==
    [][ ( \/ /\ pc = "links" /\ pc' = "links"
             /\ << link_section_started, text_section_started >>'
                  # << link_section_started, text_section_started >>
          \/ /\ pc = "text" /\ pc' = "text"
             /\ text_section_started' # text_section_started )
        => ( IsMarkerLine(content[i], LM) \/ IsMarkerLine(content[i], TM) ) ]_vars

\* C3: every document yields a record, never None; without a Links marker line
\* the links are empty, without a Text marker line the text body is empty
C3_AlwaysARecord ==
    /\ pc # "failed"
    /\ Returned =>
         /\ result # None
         /\ (\A k \in 1..Len(content) : ~IsMarkerLine(content[k], LM))
                => result.links = << >>
         /\ (\A k \in 1..Len(content) : ~IsMarkerLine(content[k], TM))
                => result.text_content = << >>

\* a source a loader can read: the bytes arrive, are a DOCX document, and the
\* extraction returns a record
Readable(src) == src.kind = "ok" /\ ExtractData(FullText(src.doc)) # None

RecordOfSource(k) ==
    IF data_source = "GitHub Repository"
    THEN GithubRecord(FileNameAt(k), ExtractData(FullText(sources[k].doc)))
    ELSE DirectoryRecord(FileNameAt(k), ExtractData(FullText(sources[k].doc)))

RECURSIVE RecordsOfFirst(_)
RecordsOfFirst(n) ==
    IF n = 0 THEN << >>
    ELSE IF Readable(sources[n]) THEN Append(RecordsOfFirst(n - 1), RecordOfSource(n))
    ELSE RecordsOfFirst(n - 1)

\* C4: at every point of a batch load, the list holds exactly the records of
\* the readable sources among those processed so far, in order: a failing
\* source neither ends the loop nor removes or changes another source's record
C4_OneRecordPerReadableSource ==
    data_source \in { "GitHub Repository", "Local Directory" }
        => company_data = RecordsOfFirst(idx - 1)

C4_Witness ==
    /\ bpc = "shown"
    /\ data_source = "GitHub Repository"
    /\ Len(sources) = 4
    /\ sources[3].kind = "timeout"
    /\ \A k \in { 1, 2, 4 } : Readable(sources[k])
    /\ Len(company_data) = 3

\* the value a loader returns (lines 138 and 183)
ReturnedValue == company_data

ErrorCount == Cardinality({ k \in 1..Len(ui) : ui[k].level = "error" })

NoHeader == \A k \in 1..Len(content) : ~Contains(content[k], SUM)

MetadataDefault(rec) ==
    /\ rec.total_links_from_summary = 0
    /\ rec.text_length_from_summary = 0
    /\ rec.extraction_date = "Unknown date"

LowConfidence(rec) == "lowConfidence" \in DOMAIN rec /\ rec.lowConfidence = TRUE

C7_MismatchIffDeclaredAndDifferent ==
    pc = "shown" =>
        ( "Link count mismatch" \in warnings
          <=> (links_count_match /\ total_links_from_summary # result.total_links) )

C9_TotalLinksIsLenLinks ==
    /\ Returned => result.total_links = Len(result.links)
    /\ \A k \in 1..Len(company_data) :
        company_data[k].total_links = Len(company_data[k].links)

C9_Witness ==
    /\ bpc = "shown"
    /\ data_source = "Sample Data (Demo)"
    /\ Len(company_data) = Len(CompaniesSample)
    /\ Len(company_data[1].links) = 19

\* text.split("\n\n")
RECURSIVE SplitOnBlankLine(_, _)
SplitOnBlankLine(s, piece) ==
    IF s = << >> THEN << piece >>
    ELSE IF Len(s) >= 2 /\ s[1] = NL /\ s[2] = NL
         THEN << piece >> \o SplitOnBlankLine(SubSeq(s, 3, Len(s)), << >>)
    ELSE SplitOnBlankLine(Tail(s), Append(piece, Head(s)))

CleanParagraphs ==
    \A k \in 1..Len(text_content_lines) :
        /\ text_content_lines[k] # << >>
        /\ ~Contains(text_content_lines[k], BS)
        /\ Strip(text_content_lines[k]) = text_content_lines[k]

\* C10 as stated: splitting the text body on "\n\n" gives back the list of
\* cleaned paragraphs, whatever the Text lines
C10_RoundTrip ==
    Returned =>
        /\ CleanParagraphs
        /\ SplitOnBlankLine(result.text_content, << >>) = text_content_lines

\* C10 amended: splitting the text body on "\n\n" gives back the list of
\* cleaned paragraphs whenever there is at least one paragraph
C10_RoundTripOfParagraphs ==
    Returned =>
        /\ CleanParagraphs
        /\ text_content_lines # << >>
             => SplitOnBlankLine(result.text_content, << >>) = text_content_lines

C10_Witness ==
    /\ pc = "done"
    /\ Len(text_content_lines) >= 2
    /\ \E k \in 1..Len(content) : Contains(content[k], BS)
    /\ \E k \in 1..Len(text_content_lines) : Len(text_content_lines[k]) >= 2

\* what the stated rule keeps of a file name: its root without the time stamp
\* when the time stamp is the end of the root, the whole root otherwise
KeptOfName(f) ==
    LET root == SplitExtRoot(f)
    IN  IF StampAt(root, Len(root)) THEN SubSeq(root, 1, Len(root) - 25) ELSE root

IsUpper(c) == \E j \in 1..Len(UpperCase) : c = UpperCase[j]

\* C11: the company name is the file name without its extension and without a
\* time stamp "_complete_<8 digits>_<6 digits>" that ends what remains, with
\* every "-" and "_" replaced by a space, in title case: it has one character
\* for each character kept, the same one apart from the replacement and the
\* case, a letter being upper case exactly when no letter precedes it; and
\* "bajaj-auto_complete_20250819_172757.docx" gives "Bajaj Auto".
C11_NameDerivation ==
    npc = "return" =>
        LET kept == KeptOfName(filename)
        IN  /\ Len(company_name) = Len(kept)
            /\ \A p \in 1..Len(kept) :
                   /\ IF kept[p] \in { "-", "_" }
                      THEN company_name[p] = " "
                      ELSE ToLower(company_name[p]) = ToLower(kept[p])
                   /\ IsLetter(company_name[p]) =>
                         (IsUpper(company_name[p])
                            <=> (p = 1 \/ ~IsLetter(company_name[p - 1])))
            /\ filename = DefaultFilenames[1] =>
                   company_name = << "B", "a", "j", "a", "j", " ", "A", "u", "t", "o" >>

\* the links and the paragraphs the two scans collect from a document
LinksOf(lines) == LinkScan([ls |-> FALSE, ts |-> FALSE, links |-> << >>], lines).links

ParagraphsOf(lines) == TextScan([ts |-> FALSE, paras |-> << >>], lines).paras

IsCsvToken(line) == line \in { << EXTRACTED_LINKS >>, << EXTRACTED_TEXT_CONTENT >> }

\* the document with its 'EXTRACTED_LINKS' lines turned into '# Extracted Links'
\* lines and its 'EXTRACTED_TEXT_CONTENT' lines into '# Extracted Text Content'
AsNarrative(lines) ==
    [k \in 1..Len(lines) |->
        IF lines[k] = << EXTRACTED_LINKS >> THEN << LM >>
        ELSE IF lines[k] = << EXTRACTED_TEXT_CONTENT >> THEN << TM >>
        ELSE lines[k]]

\* the document with each of these lines turned into a line of ordinary text
AsOrdinary(lines) ==
    [k \in 1..Len(lines) |-> IF IsCsvToken(lines[k]) THEN << X >> ELSE lines[k]]

ContributesLink(lines, k) ==
    Len(LinksOf(SubSeq(lines, 1, k))) > Len(LinksOf(SubSeq(lines, 1, k - 1)))

ContributesParagraph(lines, k) ==
    Len(ParagraphsOf(SubSeq(lines, 1, k))) > Len(ParagraphsOf(SubSeq(lines, 1, k - 1)))

IsMarker(line) == IsMarkerLine(line, LM) \/ IsMarkerLine(line, TM)

\* C13: every line has one section tag, for any order and repetition of the
\* markers: no line adds both a link and a paragraph of the text body, and a
\* marker line ('# Extracted Links' or '# Extracted Text Content') adds neither
\* and is found neither among the links nor among the paragraphs.
C13_OneSectionPerLine ==
    pc = "done" =>
        \A k \in 1..Len(content) :
            /\ ~(ContributesLink(content, k) /\ ContributesParagraph(content, k))
            /\ IsMarker(content[k]) =>
                  /\ ~ContributesLink(content, k)
                  /\ ~ContributesParagraph(content, k)
                  /\ \A p \in 1..Len(links) : links[p] # Strip(content[k])
                  /\ \A p \in 1..Len(text_content_lines) :
                         text_content_lines[p] # Strip(content[k])

\* the index of the first marker line, 0 when there is none
FirstMarker(lines) ==
    IF \E k \in 1..Len(lines) : IsMarker(lines[k])
    THEN CHOOSE k \in 1..Len(lines) :
             IsMarker(lines[k]) /\ \A j \in 1..(k - 1) : ~IsMarker(lines[j])
    ELSE 0

\* there are "**Summary:**" lines and all of them stand after the first marker
SummaryOnlyInSections(lines) ==
    /\ FirstMarker(lines) # 0
    /\ \E k \in 1..Len(lines) : Contains(lines[k], SUM)
    /\ \A k \in 1..Len(lines) : Contains(lines[k], SUM) => k > FirstMarker(lines)

\* C14: the declared link count, the declared text length and the extraction
\* date are taken from the lines before the first section marker only: when
\* "**Summary:**" occurs only after it, all three keep their defaults.
C14_MetadataFromHeaderOnly ==
    (pc = "done" /\ SummaryOnlyInSections(content)) =>
        /\ total_links_from_summary = 0
        /\ text_length_from_summary = 0
        /\ extraction_date = "Unknown date"

\* whether the last header before line k is a Links header, as the first loop
\* tells headers (a line holding both header texts is a Links header)
LinksOpenAt(lines, k) ==
    \E h \in 1..(k - 1) :
        /\ Contains(lines[h], LM)
        /\ \A j \in (h + 1)..(k - 1) : Contains(lines[j], TM) => Contains(lines[j], LM)

\* a qualifying link line: in the Links section, no header, and "https://"
\* is how the trimmed line begins
Qualifies(lines, k) ==
    /\ LinksOpenAt(lines, k)
    /\ ~Contains(lines[k], LM)
    /\ ~Contains(lines[k], TM)
    /\ Strip(lines[k]) # << >>
    /\ Head(Strip(lines[k])) = HTTPS

\* the trimmed qualifying lines among the first n lines, in their order
RECURSIVE QualifyingLines(_, _)
QualifyingLines(lines, n) ==
    IF n = 0 THEN << >>
    ELSE IF Qualifies(lines, n)
         THEN Append(QualifyingLines(lines, n - 1), Strip(lines[n]))
    ELSE QualifyingLines(lines, n - 1)

\* C15: at every point of the scan links is the trimmed qualifying link lines
\* read so far, one entry for each of them and in the order of the input: no
\* entry is dropped, merged with an equal one or moved, and the record
\* returns the list as it stands.
C15_LinksInSourceOrder ==
    /\ pc = "links" => links = QualifyingLines(content, i - 1)
    /\ pc \in { "text", "done", "shown" } =>
          links = QualifyingLines(content, Len(content))
    /\ pc \in { "done", "shown" } => result.links = links

\* the same padded URL on two lines after the header: two equal entries
C15_Witness ==
    /\ pc = "done"
    /\ Len(content) = 3
    /\ content[2] = << SP, HTTPS, SP >>
    /\ content[3] = content[2]
    /\ result.links = << << HTTPS >>, << HTTPS >> >>

====
